---- MODULE Spec2Model ----
(***************************************************************************)
(* Model of the problem lifecycle and of the coupled-solve orchestrator of *)
(* cvxlab (backend/core.py, backend/model.py).                             *)
(*                                                                         *)
(* The model instance has two sub-problems, p1 and p2, declared in that    *)
(* order.  Data table t1 is endogenous in p1 and exogenous in p2, data     *)
(* table t2 is exogenous in p1 and endogenous in p2 (both are tables whose *)
(* type depends on the sub-problem, split per scenario).  The store holds  *)
(* one value cell per table and scenario.  The scenario table of the       *)
(* instance (Index.scenarios_info) has one or two rows.                    *)
(***************************************************************************)
EXTENDS Integers, Sequences, FiniteSets, TLC

\* ------------------------------------------------------------------ bounds
MaxIterationsInput == 2
MaxValue == 1
MaxTolerance == 1
MaxCalls == 2
MaxRows == 6
MaxAxes == 3
MaxMemberVariables == 2
MaxLen == 6
MaxSetLength == 4
MaxOffset == 2
MaxPeriods == 4
MaxLifetime == 5
MaxRange == 8

\* --------------------------------------------------------------- catalogue
Scenarios == 1..2
Values == 0..MaxValue
Null == -1
StoreCells == Values \cup {Null}
Tables == {"t1", "t2"}
sub_problems_keys == <<"p1", "p2">>
SubProblems == {sub_problems_keys[i] : i \in 1..Len(sub_problems_keys)}

TableType == [t1 |-> [p1 |-> "endogenous", p2 |-> "exogenous"],
              t2 |-> [p1 |-> "exogenous", p2 |-> "endogenous"]]

\* tables that are an endogenous output of some sub-problem
tables_to_check == {t \in Tables : \E p \in SubProblems : TableType[t][p] = "endogenous"}

EndogenousTablesOf(p) == {t \in Tables : TableType[t][p] = "endogenous"}
ExogenousTablesOf(p) == {t \in Tables : TableType[t][p] = "exogenous"}

EmptyStore == [t \in Tables |-> [s \in Scenarios |-> Null]]
NoValues == [t \in Tables |-> [s \in Scenarios |-> Null]]
UnsetStatus == [p \in SubProblems |-> [s \in Scenarios |-> "unset"]]
NanStatus == [s \in Scenarios |-> [p \in SubProblems |-> "nan"]]
NoFile == [exists |-> FALSE, content |-> EmptyStore]
SolveStatuses == {"optimal", "infeasible"}

VARIABLES
    scenarios_info,      \* Index.scenarios_info: the rows (indices) of the scenario table
    symbolic,            \* Problem.symbolic_problem: "none", "loaded", "validated"
    numerical_problems,  \* Problem.numerical_problems: [defined, status[p][s]]
    problem_status,      \* Problem.problem_status: [set, value[p][s]]
    cvxpy_var,           \* DataTable.cvxpy_var values, per table and scenario
    exo_data,            \* values bound to the exogenous placeholders, per sub-problem, table, scenario
    files,               \* the store file, its backup and the previous-iteration snapshot
    pc,                  \* position of the running call
    scenario_idx,        \* solve_integrated_problems: scenario of the for loop
    iter_count,          \* solve_integrated_problems: iteration counter
    sub_idx,             \* position in the loop over the sub-problems
    maximum_iterations,
    numerical_tolerance,
    problems_status,     \* solve_integrated_problems: problems_status frame [s][p]
    iter_exit,           \* how the body of the current iteration was left
    raised,              \* an exception is propagating
    scenario_state,      \* per scenario: idle, iterating, converged, max_iterations_reached, infeasible
    rounds,              \* per scenario: solve rounds performed in the current run
    entry_db,            \* content of the store on entry to solve_integrated_problems
    last,                \* the last completed public call and its outcome
    calls,               \* public calls made so far
    fn_call,             \* a support function under evaluation: its name and arguments
    fn_result,           \* what that evaluation has produced so far
    connection           \* SQLManager connection to the store: "closed" or "open"

vars == <<scenarios_info, symbolic, numerical_problems, problem_status, cvxpy_var, exo_data, files, pc,
          scenario_idx, iter_count, sub_idx, maximum_iterations, numerical_tolerance,
          problems_status, iter_exit, raised, scenario_state, rounds, entry_db, last, calls,
          fn_call, fn_result, connection>>

\* the frame of a support-function evaluation; the instance is untouched by it
fn_vars == <<fn_call, fn_result>>

model_store == <<scenarios_info, symbolic, numerical_problems, problem_status, cvxpy_var, exo_data,
                files, pc, scenario_idx, iter_count, sub_idx, maximum_iterations,
                numerical_tolerance, problems_status, iter_exit, raised, scenario_state,
                rounds, entry_db, last, calls>>

model_vars == <<scenarios_info, symbolic, numerical_problems, problem_status, cvxpy_var, exo_data,
                files, pc, scenario_idx, iter_count, sub_idx, maximum_iterations,
                numerical_tolerance, problems_status, iter_exit, raised, scenario_state,
                rounds, entry_db, last, calls, connection>>

NoFunctionCall ==
    /\ fn_call = [name |-> "none"]
    /\ fn_result = [done |-> FALSE]

loop_vars == <<scenario_idx, iter_count, sub_idx, maximum_iterations, numerical_tolerance,
               problems_status, iter_exit, raised, scenario_state, rounds, entry_db>>

\* -------------------------------------------------- scoped connections
\* sql_manager.db_handler: the connection is opened on entry and closed on
\* exit, whether the block ends normally or with an exception
DbHandlerEnter(conn) == "open"

DbHandlerExit(conn) == "closed"

\* variant: leaving the block keeps the connection as it is
StayInWith(conn) == conn

\* "with db_handler(self.sqltools):" is entered, and left at the end of its block
EnterWith(conn) == DbHandlerEnter(conn)

LeaveWith(conn) == DbHandlerExit(conn)

\* a with block entered and left within one call
ScopedAccess(conn) == LeaveWith(EnterWith(conn))

\* ------------------------------------------------------- file operations
CopyFile(f, from, to) == [f EXCEPT ![to] = f[from]]

EraseFile(f, name) == IF f[name].exists THEN [f EXCEPT ![name] = NoFile] ELSE f

RenameFile(f, old, new) == [f EXCEPT ![new] = f[old], ![old] = NoFile]

\* the finally block of the whole run: erase the working store, restore the backup
\* variant: the backup is dropped and the iterated store kept
KeepIteratedStore(f) == EraseFile(f, "bkp")

RestoreOriginal(f) == RenameFile(EraseFile(f, "db"), "bkp", "db")

\* ---------------------------------------------------- data binding layer
\* endogenous writeback of the scenarios in scenarios_list
\* variant: a writeback that stores nothing
WriteNothing(db, var, scenarios_list) == db

WriteBack(db, var, scenarios_list) ==
    [t \in Tables |-> [s \in Scenarios |->
        IF t \in tables_to_check /\ s \in scenarios_list THEN var[t][s] ELSE db[t][s]]]

\* exogenous fetch of the scenarios in scenarios_list
FetchExogenous(exo, db, scenarios_list) ==
    [p \in SubProblems |-> [t \in Tables |-> [s \in Scenarios |->
        IF TableType[t][p] = "exogenous" /\ s \in scenarios_list
        THEN db[t][s] ELSE exo[p][t][s]]]]

NoExoData == [p \in SubProblems |-> [t \in Tables |-> [s \in Scenarios |-> Null]]]

\* ------------------------------------------------------ store difference
AbsDiff(a, b) == IF a >= b THEN a - b ELSE b - a

CellDifference(a, b) ==
    IF a = b THEN 0
    ELSE IF a = Null \/ b = Null THEN MaxValue + 1
    ELSE AbsDiff(a, b)

SetMax(S) == CHOOSE m \in S : \A x \in S : x <= m

TablesRelativeDifference(db, other, tables_names) ==
    [t \in tables_names |-> SetMax({CellDifference(db[t][s], other[t][s]) : s \in Scenarios})]

\* --------------------------------------------------- orchestrator guards
\* variant: the limit test lets one more round through
ExceedsByTwo(count, maximum) == count > maximum + 1

ExceedsMaximumIterations(count, maximum) == count > maximum

\* variant: the exogenous data are never fetched again
NeverRefetch(count) == FALSE

NeedsRefetch(count) == count > 1

AllOptimal(row) == \A p \in SubProblems : row[p] = "optimal"

FirstIteration(count) == count = 1

\* variant: a difference equal to the tolerance counts as above it
RelativeDifferenceAtOrAbove(relative_difference, tolerance) ==
    {t \in DOMAIN relative_difference : relative_difference[t] >= tolerance}

RelativeDifferenceAbove(relative_difference, tolerance) ==
    {t \in DOMAIN relative_difference : relative_difference[t] > tolerance}


\* ----------------------------------------------------------- the solver
\* what a solve can leave behind for one scenario: a status and, when optimal, a value
SolveOutcomes ==
    {[status |-> "optimal", value |-> v] : v \in Values}
    \cup {[status |-> st, value |-> Null] : st \in SolveStatuses \ {"optimal"}}

\* Problem.solve_problem_dataframe for sub-problem p: status column after the solve
SolvedStatus(np, p, outcome) ==
    [np EXCEPT !.status[p] =
        [s \in Scenarios |-> IF s \in DOMAIN outcome THEN outcome[s].status ELSE @[s]]]

\* decision variables of the endogenous tables of p after the solve
SolvedValues(var, p, outcome) ==
    [t \in Tables |-> [s \in Scenarios |->
        IF t \in EndogenousTablesOf(p) /\ s \in DOMAIN outcome
        THEN outcome[s].value ELSE var[t][s]]]

\* Problem.fetch_problem_status
FetchProblemStatus(np) == [set |-> TRUE, value |-> np.status]

\* Problem.number_of_sub_problems
NumberOfSubProblems(np) == IF np.defined THEN Len(sub_problems_keys) ELSE 0

\* the first guard of solve_numerical_problems: no numerical problems yet
\* variant: the guard is absent
NeverUndefined(np) == FALSE

NumericalProblemsUndefined(np) == ~np.defined

\* variant: the overwrite guard never sees a solved problem
NeverSolved(ps) == FALSE

\* the guard of solve_numerical_problems: some status is already set
AlreadySolved(ps) ==
    ps.set /\ ~(\A p \in SubProblems : \A s \in scenarios_info : ps.value[p][s] = "unset")

\* -------------------------------------------------------------- initial
InitialStores ==
    {EmptyStore, [t \in Tables |-> [s \in Scenarios |-> IF s \in scenarios_info THEN 0 ELSE Null]]}

NoLoop ==
    /\ scenario_idx = 0
    /\ iter_count = 0
    /\ sub_idx = 0
    /\ maximum_iterations = 0
    /\ numerical_tolerance = 0
    /\ problems_status = NanStatus
    /\ iter_exit = "none"
    /\ raised = FALSE
    /\ scenario_state = [s \in Scenarios |-> "idle"]
    /\ rounds = [s \in Scenarios |-> 0]
    /\ entry_db = EmptyStore

\* a model instance right after construction, on a store with content db
Constructed(db) ==
    /\ symbolic = "none"
    /\ numerical_problems = [defined |-> FALSE, status |-> UnsetStatus]
    /\ problem_status = [set |-> FALSE, value |-> UnsetStatus]
    /\ cvxpy_var = NoValues
    /\ exo_data = NoExoData
    /\ files = [db |-> [exists |-> TRUE, content |-> db], bkp |-> NoFile, previous |-> NoFile]
    /\ pc = "idle"
    /\ NoLoop
    /\ last = [op |-> "construct", outcome |-> "ok"]
    /\ calls = 0
    /\ connection = "closed"

\* a model instance whose problems have been initialised (initialize_problems, which the
\* constructor itself calls with use_existing_data), on a store with content db
Initialised(db) ==
    /\ symbolic = "validated"
    /\ numerical_problems = [defined |-> TRUE, status |-> UnsetStatus]
    /\ problem_status = [set |-> FALSE, value |-> UnsetStatus]
    /\ cvxpy_var = NoValues
    /\ exo_data = FetchExogenous(NoExoData, db, scenarios_info)
    /\ files = [db |-> [exists |-> TRUE, content |-> db], bkp |-> NoFile, previous |-> NoFile]
    /\ pc = "idle"
    /\ NoLoop
    /\ last = [op |-> "initialize_problems", outcome |-> "generated"]
    /\ calls = 0
    /\ connection = "closed"

\* the lifecycle of an instance with a one-row scenario table
Init ==
    /\ NoFunctionCall
    /\ scenarios_info = {1}
    /\ \E db \in InitialStores : Constructed(db) \/ Initialised(db)

\* one solve request on an initialised instance with a two-row scenario table
InitRun ==
    /\ NoFunctionCall
    /\ scenarios_info = Scenarios
    /\ \E db \in InitialStores : Initialised(db)

\* --------------------------------------- solve_integrated_problems, stepwise
\* entry of solve_integrated_problems: locals, backup copy, first scenario
EnterIntegrated(maximum, tolerance) ==
    /\ maximum_iterations' = maximum
    /\ numerical_tolerance' = tolerance
    /\ problems_status' = NanStatus
    /\ files' = CopyFile(files, "db", "bkp")
    /\ entry_db' = files.db.content
    /\ scenario_idx' = 1
    /\ iter_count' = 0
    /\ sub_idx' = 0
    /\ iter_exit' = "none"
    /\ raised' = FALSE
    /\ scenario_state' = [s \in Scenarios |-> IF s = 1 THEN "iterating" ELSE "idle"]
    /\ rounds' = [s \in Scenarios |-> 0]
    /\ pc' = "iter_begin"

\* leaving the try body of the iteration with an exception
\* variant: the exception is swallowed by the iteration
SwallowInIteration ==
    /\ iter_exit' = "exception"
    /\ raised' = FALSE
    /\ pc' = "iter_finally"

RaiseInIteration ==
    /\ iter_exit' = "exception"
    /\ raised' = TRUE
    /\ pc' = "iter_finally"

IterBegin ==
    /\ pc = "iter_begin"
    /\ iter_count' = iter_count + 1
    /\ IF ExceedsMaximumIterations(iter_count', maximum_iterations)
       THEN /\ iter_exit' = "max_iterations_reached"
            /\ pc' = "iter_finally"
       ELSE /\ iter_exit' = "none"
            /\ pc' = IF NeedsRefetch(iter_count') THEN "refetch" ELSE "snapshot"
    /\ UNCHANGED <<scenarios_info, symbolic, numerical_problems, problem_status, cvxpy_var, exo_data, files,
                   scenario_idx, sub_idx, maximum_iterations, numerical_tolerance,
                   problems_status, raised, scenario_state, rounds, entry_db, last, calls, fn_vars, connection>>

Refetch ==
    /\ pc = "refetch"
    /\ connection = "open"
    /\ connection' = LeaveWith(connection)
    /\ \/ /\ exo_data' = FetchExogenous(exo_data, files.db.content, {scenario_idx})
          /\ pc' = "snapshot"
          /\ UNCHANGED <<iter_exit, raised>>
       \/ /\ RaiseInIteration
          /\ UNCHANGED exo_data
    /\ UNCHANGED <<scenarios_info, symbolic, numerical_problems, problem_status, cvxpy_var, files,
                   scenario_idx, iter_count, sub_idx, maximum_iterations, numerical_tolerance,
                   problems_status, scenario_state, rounds, entry_db, last, calls, fn_vars>>

\* variant: the snapshot is a copy of the backup of the original store
SnapshotOfBackup(f) == CopyFile(f, "bkp", "previous")

\* copy_file_to_destination(file_name=sqlite_database_file,
\* file_new_name=sqlite_database_file_previous)
SnapshotOfStore(f) == CopyFile(f, "db", "previous")

Snapshot ==
    /\ pc = "snapshot"
    /\ \/ /\ files' = SnapshotOfStore(files)
          /\ sub_idx' = 1
          /\ rounds' = [rounds EXCEPT ![scenario_idx] = @ + 1]
          /\ pc' = "solve"
          /\ UNCHANGED <<iter_exit, raised>>
       \/ /\ RaiseInIteration
          /\ UNCHANGED <<files, sub_idx, rounds>>
    /\ UNCHANGED <<scenarios_info, symbolic, numerical_problems, problem_status, cvxpy_var, exo_data,
                   scenario_idx, iter_count, maximum_iterations, numerical_tolerance,
                   problems_status, scenario_state, entry_db, last, calls, fn_vars, connection>>

\* variant: the loop over the sub-problems stops at the first non-optimal one
StopAtNonOptimal(position, status) ==
    IF position = Len(sub_problems_keys) \/ status # "optimal" THEN "check" ELSE "solve"

\* for sub_problem_key in numerical_problems: the loop has no break, the
\* status test comes after the last sub-problem
AfterSubProblem(position, status) ==
    IF position = Len(sub_problems_keys) THEN "check" ELSE "solve"

SolveSubProblem ==
    /\ pc = "solve"
    /\ LET p == sub_problems_keys[sub_idx] IN
       \/ \E o \in SolveOutcomes :
            LET outcome == [s \in {scenario_idx} |-> o] IN
            /\ numerical_problems' = SolvedStatus(numerical_problems, p, outcome)
            /\ cvxpy_var' = SolvedValues(cvxpy_var, p, outcome)
            /\ problems_status' = [problems_status EXCEPT ![scenario_idx][p] = o.status]
            /\ sub_idx' = sub_idx + 1
            /\ pc' = AfterSubProblem(sub_idx, o.status)
            /\ UNCHANGED <<iter_exit, raised>>
       \/ /\ RaiseInIteration
          /\ UNCHANGED <<numerical_problems, cvxpy_var, problems_status, sub_idx>>
    /\ UNCHANGED <<scenarios_info, symbolic, problem_status, exo_data, files, scenario_idx, iter_count,
                   maximum_iterations, numerical_tolerance, scenario_state, rounds,
                   entry_db, last, calls, fn_vars, connection>>

\* variant: the results are written back before the status is looked at
WritebackThenCheckStatus ==
    /\ pc = "check"
    /\ files' = [files EXCEPT !.db.content = WriteBack(@, cvxpy_var, {scenario_idx})]
    /\ IF AllOptimal(problems_status[scenario_idx])
       THEN /\ pc' = "writeback"
            /\ UNCHANGED iter_exit
       ELSE /\ iter_exit' = "infeasible"
            /\ pc' = "iter_finally"
    /\ UNCHANGED <<scenarios_info, symbolic, numerical_problems, problem_status, cvxpy_var, exo_data,
                   scenario_idx, iter_count, sub_idx, maximum_iterations, numerical_tolerance,
                   problems_status, raised, scenario_state, rounds, entry_db, last, calls, fn_vars, connection>>

CheckStatus ==
    /\ pc = "check"
    /\ IF AllOptimal(problems_status[scenario_idx])
       THEN /\ pc' = "writeback"
            /\ UNCHANGED iter_exit
       ELSE /\ iter_exit' = "infeasible"
            /\ pc' = "iter_finally"
    /\ UNCHANGED <<scenarios_info, symbolic, numerical_problems, problem_status, cvxpy_var, exo_data, files,
                   scenario_idx, iter_count, sub_idx, maximum_iterations, numerical_tolerance,
                   problems_status, raised, scenario_state, rounds, entry_db, last, calls, fn_vars, connection>>

Writeback ==
    /\ pc = "writeback"
    /\ connection = "open"
    /\ connection' = LeaveWith(connection)
    /\ \/ /\ files' = [files EXCEPT !.db.content = WriteBack(@, cvxpy_var, {scenario_idx})]
          /\ IF FirstIteration(iter_count)
             THEN /\ iter_exit' = "continue"
                  /\ pc' = "iter_finally"
             ELSE /\ pc' = "difference"
                  /\ UNCHANGED iter_exit
          /\ UNCHANGED raised
       \/ /\ RaiseInIteration
          /\ UNCHANGED files
    /\ UNCHANGED <<scenarios_info, symbolic, numerical_problems, problem_status, cvxpy_var, exo_data,
                   scenario_idx, iter_count, sub_idx, maximum_iterations, numerical_tolerance,
                   problems_status, scenario_state, rounds, entry_db, last, calls, fn_vars>>

Difference ==
    /\ pc = "difference"
    /\ connection = "open"
    /\ connection' = LeaveWith(connection)
    /\ \/ LET relative_difference ==
                TablesRelativeDifference(files.db.content, files.previous.content,
                                         tables_to_check)
          IN /\ iter_exit' =
                  IF RelativeDifferenceAbove(relative_difference, numerical_tolerance) # {}
                  THEN "continue" ELSE "converged"
             /\ pc' = "iter_finally"
             /\ UNCHANGED raised
       \/ RaiseInIteration
    /\ UNCHANGED <<scenarios_info, symbolic, numerical_problems, problem_status, cvxpy_var, exo_data, files,
                   scenario_idx, iter_count, sub_idx, maximum_iterations, numerical_tolerance,
                   problems_status, scenario_state, rounds, entry_db, last, calls, fn_vars>>

\* the with block around the store access of the re-fetch, the writeback or
\* the difference is entered
OpenConnection ==
    /\ pc \in {"refetch", "writeback", "difference"}
    /\ connection = "closed"
    /\ connection' = EnterWith(connection)
    /\ UNCHANGED <<model_store, fn_vars>>

\* variant: the scenario loop ends with the first scenario
NoNextScenario(idx, info) == FALSE

\* the for loop over the scenario table has a row after idx
HasNextScenario(idx, info) == idx < Cardinality(info)

\* variant: the snapshot is erased in an else clause, not after an exception
CleanupUnlessException(f, exit) ==
    IF exit = "exception" THEN f ELSE EraseFile(f, "previous")

\* the finally clause of the iteration: the snapshot is erased however the body was left
CleanupPrevious(f, exit) == EraseFile(f, "previous")

\* the finally block of the iteration, then the continuation the exit selects
IterFinally ==
    /\ pc = "iter_finally"
    /\ files' = CleanupPrevious(files, iter_exit)
    /\ CASE iter_exit = "continue" ->
              /\ pc' = "iter_begin"
              /\ UNCHANGED <<scenario_idx, iter_count, scenario_state>>
         [] iter_exit = "exception" ->
              /\ pc' = "restore"
              /\ UNCHANGED <<scenario_idx, iter_count, scenario_state>>
         [] OTHER ->
              IF HasNextScenario(scenario_idx, scenarios_info)
              THEN /\ scenario_idx' = scenario_idx + 1
                   /\ iter_count' = 0
                   /\ scenario_state' = [scenario_state EXCEPT ![scenario_idx] = iter_exit,
                                                               ![scenario_idx + 1] = "iterating"]
                   /\ pc' = "iter_begin"
              ELSE /\ scenario_state' = [scenario_state EXCEPT ![scenario_idx] = iter_exit]
                   /\ pc' = "restore"
                   /\ UNCHANGED <<scenario_idx, iter_count>>
    /\ UNCHANGED <<scenarios_info, symbolic, numerical_problems, problem_status, cvxpy_var, exo_data,
                   sub_idx, maximum_iterations, numerical_tolerance, problems_status,
                   iter_exit, raised, rounds, entry_db, last, calls, fn_vars, connection>>

\* the finally block of the run
Restore ==
    /\ pc = "restore"
    /\ files' = RestoreOriginal(files)
    /\ pc' = "returned"
    /\ UNCHANGED <<scenarios_info, symbolic, numerical_problems, problem_status, cvxpy_var, exo_data,
                   scenario_idx, iter_count, sub_idx, maximum_iterations, numerical_tolerance,
                   problems_status, iter_exit, raised, scenario_state, rounds, entry_db,
                   last, calls, fn_vars, connection>>


\* ------------------------------------------- solve_independent_problems
\* one sub-problem frame per step, every scenario of the frame solved
SolveIndependent ==
    /\ pc = "independent"
    /\ LET p == sub_problems_keys[sub_idx] IN
       \E outcome \in [scenarios_info -> SolveOutcomes] :
          /\ numerical_problems' = SolvedStatus(numerical_problems, p, outcome)
          /\ cvxpy_var' = SolvedValues(cvxpy_var, p, outcome)
    /\ sub_idx' = sub_idx + 1
    /\ pc' = IF sub_idx = Len(sub_problems_keys) THEN "returned" ELSE "independent"
    /\ UNCHANGED <<scenarios_info, symbolic, problem_status, exo_data, files, scenario_idx, iter_count,
                   maximum_iterations, numerical_tolerance, problems_status, iter_exit,
                   raised, scenario_state, rounds, entry_db, last, calls, fn_vars, connection>>

ResetLoop ==
    /\ scenario_idx' = 0
    /\ iter_count' = 0
    /\ sub_idx' = 0
    /\ maximum_iterations' = 0
    /\ numerical_tolerance' = 0
    /\ problems_status' = NanStatus
    /\ iter_exit' = "none"
    /\ raised' = FALSE
    /\ scenario_state' = [s \in Scenarios |-> "idle"]
    /\ rounds' = [s \in Scenarios |-> 0]
    /\ entry_db' = EmptyStore

\* back in solve_numerical_problems: the exception propagates, or the status is fetched
SolveReturn ==
    /\ pc = "returned"
    /\ IF raised
       THEN /\ last' = [op |-> "solve", outcome |-> "raised"]
            /\ UNCHANGED problem_status
       ELSE /\ last' = [op |-> "solve", outcome |-> "ok"]
            /\ problem_status' = FetchProblemStatus(numerical_problems)
    /\ ResetLoop
    /\ pc' = "idle"
    /\ UNCHANGED <<scenarios_info, symbolic, numerical_problems, cvxpy_var, exo_data, files, calls, fn_vars, connection>>

\* ------------------------------------------------------ public operations
Finish(op, outcome) ==
    /\ last' = [op |-> op, outcome |-> outcome]
    /\ pc' = "idle"

\* Core.solve_numerical_problems
SolveNumericalProblems(op, force_overwrite, confirm, integrated_problems, maximum, tolerance) ==
    IF NumericalProblemsUndefined(numerical_problems)
    THEN /\ Finish(op, "OperationalError")
         /\ UNCHANGED <<scenarios_info, symbolic, numerical_problems, problem_status, cvxpy_var, exo_data,
                        files, loop_vars>>
    ELSE IF AlreadySolved(problem_status) /\ ~force_overwrite /\ ~confirm
    THEN /\ Finish(op, "not_solved")
         /\ UNCHANGED <<scenarios_info, symbolic, numerical_problems, problem_status, cvxpy_var, exo_data,
                        files, loop_vars>>
    ELSE IF integrated_problems
    THEN /\ EnterIntegrated(maximum, tolerance)
         /\ UNCHANGED <<scenarios_info, symbolic, numerical_problems, problem_status, cvxpy_var, exo_data,
                        last>>
    ELSE /\ pc' = "independent"
         /\ sub_idx' = 1
         /\ UNCHANGED <<scenarios_info, symbolic, numerical_problems, problem_status, cvxpy_var, exo_data,
                        files, scenario_idx, iter_count, maximum_iterations,
                        numerical_tolerance, problems_status, iter_exit, raised,
                        scenario_state, rounds, entry_db, last>>

CanCall ==
    /\ pc = "idle"
    /\ calls < MaxCalls
    /\ calls' = calls + 1
    /\ connection' = ScopedAccess(connection)
    /\ UNCHANGED fn_vars

\* a direct call of Core.solve_numerical_problems
CoreSolveWith(force_overwrite, confirm, integrated_problems, maximum, tolerance) ==
    /\ CanCall
    /\ SolveNumericalProblems("core_solve", force_overwrite, confirm, integrated_problems,
                              maximum, tolerance)

CoreSolve ==
    /\ pc = "idle"
    /\ \E force_overwrite, confirm, integrated_problems \in BOOLEAN :
       \E maximum \in 0..MaxIterationsInput, tolerance \in 0..MaxTolerance :
        CoreSolveWith(force_overwrite, confirm, integrated_problems, maximum, tolerance)

\* Model.run_model; solver_allowed: the solver name is among the installed solvers
RunModelWith(solver_allowed, force_overwrite, confirm, integrated_problems, maximum, tolerance) ==
    /\ CanCall
    /\ LET sub_problems == NumberOfSubProblems(numerical_problems) IN
       IF ~solver_allowed
       THEN /\ Finish("run_model", "SettingsError")
            /\ UNCHANGED <<scenarios_info, symbolic, numerical_problems, problem_status,
                           cvxpy_var, exo_data, files, loop_vars>>
       ELSE IF sub_problems = 0
       THEN /\ Finish("run_model", "OperationalError")
            /\ UNCHANGED <<scenarios_info, symbolic, numerical_problems, problem_status,
                           cvxpy_var, exo_data, files, loop_vars>>
       ELSE IF integrated_problems /\ sub_problems = 1
       THEN /\ Finish("run_model", "SettingsError")
            /\ UNCHANGED <<scenarios_info, symbolic, numerical_problems, problem_status,
                           cvxpy_var, exo_data, files, loop_vars>>
       ELSE SolveNumericalProblems("run_model", force_overwrite, confirm,
                                   integrated_problems, maximum, tolerance)

RunModel ==
    /\ pc = "idle"
    /\ \E solver_allowed, force_overwrite, confirm, integrated_problems \in BOOLEAN :
       \E maximum \in 0..MaxIterationsInput, tolerance \in 0..MaxTolerance :
        RunModelWith(solver_allowed, force_overwrite, confirm, integrated_problems,
                     maximum, tolerance)


\* Problem.load_symbolic_problem_from_file, then Problem.check_symbolic_problem_coherence
LoadAndValidateSymbolicProblem(coherent) == IF coherent THEN "validated" ELSE "loaded"

\* a null cell among the rows the exogenous fetch reads
HasNullExogenous(db) ==
    \E p \in SubProblems, t \in Tables, s \in scenarios_info :
        TableType[t][p] = "exogenous" /\ db[t][s] = Null

\* variant: generation that does not look at the validation state
GenerateUnchecked(sym, np, force_overwrite, confirm) ==
    IF np.defined /\ ~force_overwrite /\ ~confirm
    THEN [outcome |-> "not_overwritten", np |-> np]
    ELSE [outcome |-> "generated", np |-> [defined |-> TRUE, status |-> UnsetStatus]]

\* Problem.generate_numerical_problems
GenerateNumericalProblems(sym, np, force_overwrite, confirm) ==
    IF sym # "validated"
    THEN [outcome |-> "OperationalError", np |-> np]
    ELSE IF np.defined /\ ~force_overwrite /\ ~confirm
    THEN [outcome |-> "not_overwritten", np |-> np]
    ELSE [outcome |-> "generated", np |-> [defined |-> TRUE, status |-> UnsetStatus]]

\* Core.generate_numerical_problem, entered with the symbolic problem in state sym
GenerateNumericalProblem(op, sym, force_overwrite, allow_none_values, confirm) ==
    /\ symbolic' = sym
    /\ cvxpy_var' = NoValues
    /\ IF ~allow_none_values /\ HasNullExogenous(files.db.content)
       THEN /\ exo_data' = NoExoData
            /\ Finish(op, "MissingDataError")
            /\ UNCHANGED <<numerical_problems, problem_status>>
       ELSE LET generated == GenerateNumericalProblems(sym, numerical_problems,
                                                        force_overwrite, confirm)
            IN /\ exo_data' = FetchExogenous(NoExoData, files.db.content, scenarios_info)
               /\ numerical_problems' = generated.np
               /\ problem_status' = IF generated.outcome = "generated"
                                    THEN [set |-> FALSE, value |-> UnsetStatus]
                                    ELSE problem_status
               /\ Finish(op, generated.outcome)
    /\ UNCHANGED <<scenarios_info, files, loop_vars>>

CoreLoadAndValidate ==
    /\ CanCall
    /\ \E coherent \in BOOLEAN :
          /\ symbolic' = LoadAndValidateSymbolicProblem(coherent)
          /\ Finish("load_and_validate", IF coherent THEN "ok" ELSE "SettingsError")
    /\ UNCHANGED <<scenarios_info, numerical_problems, problem_status, cvxpy_var, exo_data,
                   files, loop_vars>>

\* a direct call of Core.generate_numerical_problem
CoreGenerate ==
    /\ CanCall
    /\ \E force_overwrite, allow_none_values, confirm \in BOOLEAN :
          GenerateNumericalProblem("core_generate", symbolic, force_overwrite,
                                   allow_none_values, confirm)

\* Model.initialize_problems: the two arguments reach generate_numerical_problem
\* positionally, allow_none_values first
InitializeProblemsWith(force_overwrite, allow_none_values, coherent, confirm) ==
    /\ CanCall
    /\ IF ~coherent
       THEN /\ symbolic' = LoadAndValidateSymbolicProblem(coherent)
            /\ Finish("initialize_problems", "SettingsError")
            /\ UNCHANGED <<scenarios_info, numerical_problems, problem_status,
                           cvxpy_var, exo_data, files, loop_vars>>
       ELSE GenerateNumericalProblem("initialize_problems",
                                     LoadAndValidateSymbolicProblem(coherent),
                                     allow_none_values, force_overwrite, confirm)

InitializeProblems ==
    /\ pc = "idle"
    /\ \E force_overwrite, allow_none_values, coherent, confirm \in BOOLEAN :
          InitializeProblemsWith(force_overwrite, allow_none_values, coherent, confirm)

\* variant: results count as available in every state
AlwaysSolved(ps) == TRUE

\* Model.is_problem_solved
IsProblemSolved(ps) == ps.set

\* the values scenarios_idx can take: None, one scenario index, a list of indices
ScenariosIdx ==
    {[kind |-> "none", idx |-> {}]}
    \cup {[kind |-> "int", idx |-> {i}] : i \in scenarios_info}
    \cup {[kind |-> "list", idx |-> l] : l \in (SUBSET scenarios_info) \ {{}}}

\* the scenarios the caller selects with scenarios_idx
SelectedScenarios(scenarios_idx) ==
    IF scenarios_idx.kind = "none" THEN scenarios_info ELSE scenarios_idx.idx

\* Core.cvxpy_endogenous_data_to_database on tables split per scenario: scenarios_list
\* is bound for None and for an int only
CvxpyEndogenousDataToDatabase(op, scenarios_idx) ==
    IF scenarios_idx.kind = "list"
    THEN /\ Finish(op, "UnboundLocalError")
         /\ UNCHANGED files
    ELSE /\ files' = [files EXCEPT !.db.content =
                        WriteBack(@, cvxpy_var, SelectedScenarios(scenarios_idx))]
         /\ Finish(op, "ok")

\* Model.load_results_to_database
LoadResultsToDatabaseWith(scenarios_idx) ==
    /\ CanCall
    /\ IF ~IsProblemSolved(problem_status)
       THEN /\ Finish("load_results", "warned")
            /\ UNCHANGED files
       ELSE CvxpyEndogenousDataToDatabase("load_results", scenarios_idx)
    /\ UNCHANGED <<scenarios_info, symbolic, numerical_problems, problem_status, cvxpy_var, exo_data,
                   loop_vars>>

LoadResultsToDatabase ==
    /\ pc = "idle"
    /\ \E scenarios_idx \in ScenariosIdx : LoadResultsToDatabaseWith(scenarios_idx)

Next ==
    \/ CoreLoadAndValidate
    \/ CoreGenerate
    \/ InitializeProblems
    \/ CoreSolve
    \/ RunModel
    \/ LoadResultsToDatabase
    \/ IterBegin
    \/ Refetch
    \/ Snapshot
    \/ SolveSubProblem
    \/ CheckStatus
    \/ Writeback
    \/ Difference
    \/ OpenConnection
    \/ IterFinally
    \/ Restore
    \/ SolveIndependent
    \/ SolveReturn

Spec == Init /\ [][Next]_vars

\* the first call is run_model, and no other call follows it
RunOnce == calls = 0 /\ RunModel

NextRun ==
    \/ RunOnce
    \/ IterBegin
    \/ Refetch
    \/ Snapshot
    \/ SolveSubProblem
    \/ CheckStatus
    \/ Writeback
    \/ Difference
    \/ OpenConnection
    \/ IterFinally
    \/ Restore
    \/ SolveIndependent
    \/ SolveReturn

SpecRun == InitRun /\ [][NextRun]_vars


\* ====================================================================
\* Core.data_to_cvxpy_exogenous_vars with default arguments, variable by variable
\* ====================================================================
\* at most this many offending row ids are named in the error message
MaxReportedIds == 5

\* self.index.variables, in index order
FetchVariables == <<"v1", "v2">>

\* Variable.type: one of three strings, or a dictionary from sub-problem to type
VariableTypes ==
    {[dict |-> FALSE, type |-> t, by |-> [p \in SubProblems |-> t]] :
        t \in {"constant", "exogenous", "endogenous"}}
    \cup {[dict |-> TRUE, type |-> "dict", by |-> f] :
            f \in [SubProblems -> {"exogenous", "endogenous"}]}

\* what the values column of a fetched row can hold
RowKinds == {"num", "null", "text"}

\* the rows table_to_dataframe returns for a variable; the row id is the position
RawData == [1..MaxRows -> RowKinds]

NumericRows == [i \in 1..MaxRows |-> "num"]

\* variant: a null is flagged whatever allow_none says
NullAlwaysFlagged(value, allow_none) == value # "num"

\* is_non_allowed(row): pd.isna(value) -> not allow_none, else not isinstance(value, allowed_types)
IsNonAllowed(value, allow_none) ==
    IF value = "null" THEN ~allow_none ELSE value # "num"

\* util.find_non_allowed_types with return_col_header = id: ids of the offending rows
RECURSIVE NonAllowedFrom(_, _, _)
NonAllowedFrom(rows, i, allow_none) ==
    IF i > Len(rows) THEN <<>>
    ELSE LET is_non_allowed == IsNonAllowed(rows[i], allow_none)
         IN (IF is_non_allowed THEN <<i>> ELSE <<>>)
            \o NonAllowedFrom(rows, i + 1, allow_none)

FindNonAllowedTypes(rows, allow_none) == NonAllowedFrom(rows, 1, allow_none)

\* variant: the total is added from five offending rows on
MessageFromFive(non_allowed_ids) ==
    IF Len(non_allowed_ids) >= MaxReportedIds
    THEN [ids |-> SubSeq(non_allowed_ids, 1, MaxReportedIds), has_total |-> TRUE,
          total |-> Len(non_allowed_ids)]
    ELSE [ids |-> non_allowed_ids, has_total |-> FALSE, total |-> 0]

\* the row list of the MissingDataError message
NonAllowedMessage(non_allowed_ids) ==
    IF Len(non_allowed_ids) > MaxReportedIds
    THEN [ids |-> SubSeq(non_allowed_ids, 1, MaxReportedIds), has_total |-> TRUE,
          total |-> Len(non_allowed_ids)]
    ELSE [ids |-> non_allowed_ids, has_total |-> FALSE, total |-> 0]

\* variant: every sub-problem of a per-problem type is fetched
EveryProblemKey(type) == IF type.dict THEN sub_problems_keys ELSE <<"none">>

\* the problem keys a variable is fetched for
ProblemKeys(type) ==
    IF type.dict
    THEN SelectSeq(sub_problems_keys, LAMBDA p : type.by[p] = "exogenous")
    ELSE <<"none">>

SkipsVariable(type) == ~type.dict /\ type.type \in {"endogenous", "constant"}

NoFetchError == [raised |-> FALSE, var |-> "none", message |-> NonAllowedMessage(<<>>)]

\* the loop over the problem keys of variable v: read, check, assign
RECURSIVE FetchProblemKeys(_, _, _, _, _)
FetchProblemKeys(st, v, keys, rows, allow_none) ==
    IF keys = <<>> THEN st
    ELSE LET non_allowed_ids == FindNonAllowedTypes(rows, allow_none)
             read == [st EXCEPT !.log = Append(@, <<v, Head(keys)>>)]
         IN IF non_allowed_ids # <<>>
            THEN [read EXCEPT !.done = TRUE,
                              !.error = [raised |-> TRUE, var |-> v,
                                         message |-> NonAllowedMessage(non_allowed_ids)]]
            ELSE FetchProblemKeys([read EXCEPT !.assigned = @ \cup {<<v, Head(keys)>>}],
                                  v, Tail(keys), rows, allow_none)

InitFetch ==
    /\ scenarios_info = {1}
    /\ Constructed(EmptyStore)
    /\ \E types \in [1..Len(FetchVariables) -> VariableTypes], bad \in 1..Len(FetchVariables),
          rows \in RawData, allow_none_values \in BOOLEAN :
          fn_call = [name |-> "data_to_cvxpy_exogenous_vars",
                     types |-> types,
                     rows |-> [i \in 1..Len(FetchVariables) |->
                                  IF i = bad THEN rows ELSE NumericRows],
                     allow_none_values |-> allow_none_values]
    /\ fn_result = [done |-> FALSE, pos |-> 1, log |-> <<>>, assigned |-> {},
                    error |-> NoFetchError]

\* one pass of the loop over self.index.variables
FetchVariable ==
    /\ fn_call.name = "data_to_cvxpy_exogenous_vars"
    /\ ~fn_result.done
    /\ LET i == fn_result.pos
           type == fn_call.types[i]
           after == IF SkipsVariable(type) THEN fn_result
                    ELSE FetchProblemKeys(fn_result, FetchVariables[i], ProblemKeys(type),
                                          fn_call.rows[i], fn_call.allow_none_values)
       IN fn_result' = IF after.error.raised THEN after
                       ELSE [after EXCEPT !.pos = i + 1,
                                          !.done = (i = Len(FetchVariables))]
    /\ UNCHANGED <<model_vars, fn_call>>

SpecFetch == InitFetch /\ [][FetchVariable]_vars

\* ====================================================================
\* util.dict_cartesian_product and util.unpivot_dict_to_dataframe
\* ====================================================================
\* labels an axis can hold
Items == {"x", "y", "z"}

\* the item list of one axis: labels in any order, none repeated
ItemLists ==
    UNION {{l \in [1..n -> Items] : \A i, j \in 1..n : i # j => l[i] # l[j]} :
              n \in 0..Cardinality(Items)}

\* data_dict: the axes in key order, each with its item list
DataDicts == UNION {[1..n -> ItemLists] : n \in 0..MaxAxes}

ProductFunctions == {"dict_cartesian_product", "unpivot_dict_to_dataframe"}

\* [x + [y] for y in pool]
ExtendRow(x, pool) == [j \in 1..Len(pool) |-> Append(x, pool[j])]

\* variant: the new axis is the outer loop, so it varies slowest
RECURSIVE ExtendPoolOutermost(_, _)
ExtendPoolOutermost(result, pool) ==
    IF pool = <<>> THEN <<>>
    ELSE [j \in 1..Len(result) |-> Append(result[j], Head(pool))]
         \o ExtendPoolOutermost(result, Tail(pool))

\* one pool of itertools.product: result = [x + [y] for x in result for y in pool]
RECURSIVE Extend(_, _)
Extend(result, pool) ==
    IF result = <<>> THEN <<>>
    ELSE ExtendRow(Head(result), pool) \o Extend(Tail(result), pool)

\* itertools.product(*pools) as a list
RECURSIVE ProductFrom(_, _)
ProductFrom(result, pools) ==
    IF pools = <<>> THEN result
    ELSE ProductFrom(Extend(result, Head(pools)), Tail(pools))

CartesianProduct(pools) == ProductFrom(<<(<<>>)>>, pools)

\* dict_cartesian_product returns [] for an empty dictionary before any product
ReturnsEarly(call) == call.name = "dict_cartesian_product" /\ call.data_dict = <<>>

InitProduct ==
    /\ scenarios_info = {1}
    /\ Constructed(EmptyStore)
    /\ \E name \in ProductFunctions, data_dict \in DataDicts :
          fn_call = [name |-> name, data_dict |-> data_dict]
    /\ fn_result = [done |-> FALSE, raised |-> FALSE, axis |-> 1, rows |-> <<(<<>>)>>]

\* the product takes in the next axis
ProductPool ==
    /\ fn_call.name \in ProductFunctions
    /\ ~fn_result.done
    /\ ~ReturnsEarly(fn_call)
    /\ fn_result.axis <= Len(fn_call.data_dict)
    /\ fn_result' = [fn_result EXCEPT !.rows = Extend(@, fn_call.data_dict[fn_result.axis]),
                                      !.axis = @ + 1]
    /\ UNCHANGED <<model_vars, fn_call>>

\* the combinations are returned as a list of rows
ProductReturn ==
    /\ fn_call.name \in ProductFunctions
    /\ ~fn_result.done
    /\ ReturnsEarly(fn_call) \/ fn_result.axis > Len(fn_call.data_dict)
    /\ fn_result' = [fn_result EXCEPT !.done = TRUE,
                                      !.rows = IF ReturnsEarly(fn_call) THEN <<>> ELSE @]
    /\ UNCHANGED <<model_vars, fn_call>>

NextProduct == ProductPool \/ ProductReturn

SpecProduct == InitProduct /\ [][NextProduct]_vars

\* ====================================================================
\* Core.initialize_problems_variables for one endogenous data table
\* ====================================================================
\* the sets of the data table with their items; the first is the set that
\* splits the problem into scenario groups when the table is split
TableCoordinates == <<(<<"x", "y">>), (<<"x", "y">>)>>

\* the items a variable may name on each axis: the first axis may also hold
\* an item the table does not have
VariableAxes == <<(<<"x", "y", "z">>), (<<"x", "y">>)>>

ItemsOf(list) == {list[j] : j \in 1..Len(list)}

\* an item list restricted by a filter, in the order of the list
FilteredLists(list) == {SelectSeq(list, LAMBDA item : item \in S) : S \in SUBSET ItemsOf(list)}

\* Variable.all_coordinates_w_headers: one item list per table axis
VariableCoordinates ==
    {<<a, b>> : a \in FilteredLists(VariableAxes[1]), b \in FilteredLists(VariableAxes[2])}

\* the variables of data_table.variables_list, in index order
MemberVariables == UNION {[1..n -> VariableCoordinates] : n \in 1..MaxMemberVariables}

\* keys of data_table.coordinates_dataframe: one frame, or one per scenario group
CoordinateGroups(split) == IF split THEN ItemsOf(TableCoordinates[1]) ELSE {"all"}

\* DataTable.generate_coordinates_dataframes
GenerateCoordinatesDataframes(split) ==
    [g \in CoordinateGroups(split) |->
        IF split THEN CartesianProduct(<<(<<g>>)>> \o Tail(TableCoordinates))
        ELSE CartesianProduct(TableCoordinates)]

\* variant: repeated rows are kept
KeepDuplicates(rows) == rows

RECURSIVE DropDuplicatesFrom(_, _)
DropDuplicatesFrom(rows, seen) ==
    IF rows = <<>> THEN <<>>
    ELSE IF Head(rows) \in seen THEN DropDuplicatesFrom(Tail(rows), seen)
         ELSE <<Head(rows)>> \o DropDuplicatesFrom(Tail(rows), seen \cup {Head(rows)})

\* DataFrame.drop_duplicates: the first occurrence of every row is kept
DropDuplicates(rows) == DropDuplicatesFrom(rows, {})

\* DataFrame.merge(how='inner') on all columns: one row per matching pair
RECURSIVE InnerMerge(_, _)
InnerMerge(left, right) ==
    IF left = <<>> THEN <<>>
    ELSE SelectSeq(right, LAMBDA r : r = Head(left)) \o InnerMerge(Tail(left), right)

InitCoordinates ==
    /\ scenarios_info = {1}
    /\ Constructed(EmptyStore)
    /\ \E split \in BOOLEAN, variables \in MemberVariables :
          fn_call = [name |-> "initialize_problems_variables", split |-> split,
                     variables |-> variables]
    /\ fn_result = [done |-> FALSE, step |-> "generate", var |-> 1,
                    coordinates |-> [g \in CoordinateGroups(fn_call.split) |-> <<>>],
                    filtered |-> <<>>,
                    shape |-> [g \in CoordinateGroups(fn_call.split) |-> <<0, 0>>]]

CoordinatesStep(step) ==
    /\ fn_call.name = "initialize_problems_variables"
    /\ ~fn_result.done
    /\ fn_result.step = step

GenerateCoordinates ==
    /\ CoordinatesStep("generate")
    /\ fn_result' = [fn_result EXCEPT !.coordinates = GenerateCoordinatesDataframes(fn_call.split),
                                      !.step = "concat"]
    /\ UNCHANGED <<model_vars, fn_call>>

\* the coordinates of the next member variable are appended
ConcatVariableCoordinates ==
    /\ CoordinatesStep("concat")
    /\ fn_result' = [fn_result EXCEPT
                        !.filtered = @ \o CartesianProduct(fn_call.variables[fn_result.var]),
                        !.var = @ + 1,
                        !.step = IF fn_result.var = Len(fn_call.variables) THEN "drop"
                                 ELSE "concat"]
    /\ UNCHANGED <<model_vars, fn_call>>

DropDuplicateCoordinates ==
    /\ CoordinatesStep("drop")
    /\ fn_result' = [fn_result EXCEPT !.filtered = DropDuplicates(@), !.step = "merge"]
    /\ UNCHANGED <<model_vars, fn_call>>

MergeCoordinates ==
    /\ CoordinatesStep("merge")
    /\ fn_result' = [fn_result EXCEPT
                        !.coordinates = [g \in DOMAIN @ |-> InnerMerge(@[g], fn_result.filtered)],
                        !.step = "create"]
    /\ UNCHANGED <<model_vars, fn_call>>

\* one cvxpy variable per coordinates frame, of shape (rows of the frame, 1)
CreateCvxpyVariable ==
    /\ CoordinatesStep("create")
    /\ fn_result' = [fn_result EXCEPT
                        !.shape = [g \in DOMAIN @ |-> <<Len(fn_result.coordinates[g]), 1>>],
                        !.step = "done",
                        !.done = TRUE]
    /\ UNCHANGED <<model_vars, fn_call>>

NextCoordinates ==
    \/ GenerateCoordinates
    \/ ConcatVariableCoordinates
    \/ DropDuplicateCoordinates
    \/ MergeCoordinates
    \/ CreateCvxpyVariable

SpecCoordinates == InitCoordinates /\ [][NextCoordinates]_vars

\* ====================================================================
\* util_text.extract_tokens_from_expression with the default patterns
\* ====================================================================
\* characters of an expression: two letters, a digit and an operator sign
Letters == {"b", "c"}

Digits == {"1"}

Characters == Letters \cup Digits \cup {"+"}

\* first_char_pattern [a-zA-Z_] and other_chars_pattern [a-zA-Z0-9_]*
FirstChars == Letters

OtherChars == Letters \cup Digits

\* the characters the regular expression engine counts as word characters
WordChars == Letters \cup Digits

\* an expression is a string: a sequence of characters
Expressions == UNION {[1..n -> Characters] : n \in 0..MaxLen}

SkipLists == {<<>>, <<(<<"b">>)>>, <<(<<"b", "b">>)>>, <<(<<"b">>), (<<"b", "b">>)>>}

IsWordAt(expression, i) == i \in 1..Len(expression) /\ expression[i] \in WordChars

\* \b before position i: exactly one of the neighbours is a word character
BoundaryAt(expression, i) == IsWordAt(expression, i - 1) # IsWordAt(expression, i)

\* the leading \b of full_pattern
LeadingBoundary(expression, i) == BoundaryAt(expression, i)

\* the ends at which full_pattern can match from position p
MatchEnds(expression, p) ==
    {e \in p..Len(expression) :
        /\ LeadingBoundary(expression, p)
        /\ expression[p] \in FirstChars
        /\ \A i \in (p + 1)..e : expression[i] \in OtherChars
        /\ BoundaryAt(expression, e + 1)}

\* the star is greedy: the longest match is taken
GreedyEnd(ends) == CHOOSE e \in ends : \A d \in ends : d <= e

\* variant: a token is dropped when a skip entry begins or ends it
SkipsAffixed(token, tokens_to_skip) ==
    \E k \in 1..Len(tokens_to_skip) :
        LET entry == tokens_to_skip[k]
        IN /\ Len(entry) <= Len(token)
           /\ \/ SubSeq(token, 1, Len(entry)) = entry
              \/ SubSeq(token, Len(token) - Len(entry) + 1, Len(token)) = entry

\* token in tokens_to_skip
IsSkipped(token, tokens_to_skip) ==
    \E k \in 1..Len(tokens_to_skip) : tokens_to_skip[k] = token

RECURSIVE AllowedTokens(_, _)
AllowedTokens(tokens, tokens_to_skip) ==
    IF tokens = <<>> THEN <<>>
    ELSE (IF IsSkipped(Head(tokens), tokens_to_skip) THEN <<>> ELSE <<Head(tokens)>>)
         \o AllowedTokens(Tail(tokens), tokens_to_skip)

InitTokens ==
    /\ scenarios_info = {1}
    /\ Constructed(EmptyStore)
    /\ \E expression \in Expressions, tokens_to_skip \in SkipLists :
          fn_call = [name |-> "extract_tokens_from_expression", expression |-> expression,
                     tokens_to_skip |-> tokens_to_skip]
    /\ fn_result = [done |-> FALSE, pos |-> 1, tokens |-> <<>>, allowed_tokens |-> <<>>]

\* re.findall tries the pattern at the current position and moves on
MatchAtPosition ==
    /\ fn_call.name = "extract_tokens_from_expression"
    /\ ~fn_result.done
    /\ fn_result.pos <= Len(fn_call.expression)
    /\ LET ends == MatchEnds(fn_call.expression, fn_result.pos)
       IN fn_result' =
             IF ends = {} THEN [fn_result EXCEPT !.pos = @ + 1]
             ELSE [fn_result EXCEPT
                      !.tokens = Append(@, SubSeq(fn_call.expression, fn_result.pos,
                                                  GreedyEnd(ends))),
                      !.pos = GreedyEnd(ends) + 1]
    /\ UNCHANGED <<model_vars, fn_call>>

\* the matches not in tokens_to_skip are returned
FilterTokens ==
    /\ fn_call.name = "extract_tokens_from_expression"
    /\ ~fn_result.done
    /\ fn_result.pos > Len(fn_call.expression)
    /\ fn_result' = [fn_result EXCEPT
                        !.allowed_tokens = AllowedTokens(fn_result.tokens, fn_call.tokens_to_skip),
                        !.done = TRUE]
    /\ UNCHANGED <<model_vars, fn_call>>

NextTokens == MatchAtPosition \/ FilterTokens

SpecTokens == InitTokens /\ [][NextTokens]_vars

\* ====================================================================
\* util.find_non_allowed_types on one dataframe, row by row
\* ====================================================================
InitNonAllowed ==
    /\ scenarios_info = {1}
    /\ Constructed(EmptyStore)
    /\ \E rows \in RawData, allow_none \in BOOLEAN :
          fn_call = [name |-> "find_non_allowed_types", rows |-> rows, allow_none |-> allow_none]
    /\ fn_result = [done |-> FALSE, non_allowed_rows |-> <<>>, ids |-> <<>>]

\* dataframe.apply(is_non_allowed, axis=1): the next row is tested
ApplyIsNonAllowed ==
    /\ fn_call.name = "find_non_allowed_types"
    /\ ~fn_result.done
    /\ Len(fn_result.non_allowed_rows) < Len(fn_call.rows)
    /\ fn_result' = [fn_result EXCEPT !.non_allowed_rows =
                        Append(@, IsNonAllowed(fn_call.rows[Len(@) + 1], fn_call.allow_none))]
    /\ UNCHANGED <<model_vars, fn_call>>

\* dataframe.loc[non_allowed_rows, return_col_header].tolist()
ReturnNonAllowedIds ==
    /\ fn_call.name = "find_non_allowed_types"
    /\ ~fn_result.done
    /\ Len(fn_result.non_allowed_rows) = Len(fn_call.rows)
    /\ LET ids == [i \in 1..Len(fn_call.rows) |-> i]
       IN fn_result' = [fn_result EXCEPT
                           !.ids = SelectSeq(ids, LAMBDA i : fn_result.non_allowed_rows[i]),
                           !.done = TRUE]
    /\ UNCHANGED <<model_vars, fn_call>>

NextNonAllowed == ApplyIsNonAllowed \/ ReturnNonAllowedIds

SpecNonAllowed == InitNonAllowed /\ [][NextNonAllowed]_vars

\* ====================================================================
\* util_operators.shift
\* ====================================================================
\* shift_value.value: a 1x1 array, or a 1xN array of one offset per column
ShiftValues(N) ==
    {<<k>> : k \in (0 - N - 1)..(N + 1)}
    \cup [1..N -> (0 - MaxOffset)..MaxOffset]

\* variant: the diagonal offset keeps the sign of the shift
SameSign(sv) == sv

\* the k handed to np.eye: matrix = np.eye(N=sl, k=-sv)
DiagonalOffset(sv) == 0 - sv

Min(a, b) == IF a < b THEN a ELSE b

\* np.eye(N, k=k) as a flat row-major array: m = zeros((N, N)); if k >= N the
\* zeros are returned, else m[:N-k].flat[i::N+1] = 1 with i = k for k >= 0
\* and i = (-k)*N otherwise
Eye(N, k) ==
    LET rows == Min(N, N - k)
        i == IF k >= 0 THEN k ELSE (0 - k) * N
    IN [p \in 1..(N * N) |->
           IF /\ k < N
              /\ p - 1 < rows * N
              /\ p - 1 >= i
              /\ (p - 1 - i) % (N + 1) = 0
           THEN 1 ELSE 0]

InitShift ==
    /\ scenarios_info = {1}
    /\ Constructed(EmptyStore)
    /\ \E N \in 1..MaxSetLength :
          \E shift_value \in ShiftValues(N) :
             fn_call = [name |-> "shift", set_length |-> N, shift_value |-> shift_value]
    /\ fn_result = [done |-> FALSE, raised |-> FALSE, step |-> "check", matrix |-> <<>>]

\* the size checks: set_length and shift_value must be scalars
ShiftCheck ==
    /\ fn_call.name = "shift"
    /\ ~fn_result.done
    /\ fn_result.step = "check"
    /\ fn_result' = IF Len(fn_call.shift_value) # 1
                    THEN [fn_result EXCEPT !.done = TRUE, !.raised = TRUE, !.step = "ValueError"]
                    ELSE [fn_result EXCEPT !.step = "eye"]
    /\ UNCHANGED <<model_vars, fn_call>>

\* the shifted diagonal is built and returned
ShiftEye ==
    /\ fn_call.name = "shift"
    /\ ~fn_result.done
    /\ fn_result.step = "eye"
    /\ fn_result' = [fn_result EXCEPT
                        !.matrix = Eye(fn_call.set_length,
                                       DiagonalOffset(fn_call.shift_value[1])),
                        !.step = "return",
                        !.done = TRUE]
    /\ UNCHANGED <<model_vars, fn_call>>

NextShift == ShiftCheck \/ ShiftEye

SpecShift == InitShift /\ [][NextShift]_vars

\* ====================================================================
\* util_operators.annuity
\* ====================================================================
\* what a cell of the annuity matrix holds: zero, 1/lt, or ir(1+ir)^lt / ((1+ir)^lt - 1)
AnnuityCells == {"zero", "inverse_lifetime", "annuity_factor"}

\* the cell written for (row, col), rows and columns counted from 0
AnnuityCell(row, col, lt, ir) ==
    IF col > row THEN "zero"
    ELSE IF row - col < lt
         THEN (IF ir[col + 1] = 0 THEN "inverse_lifetime" ELSE "annuity_factor")
         ELSE "zero"

InitAnnuity ==
    /\ scenarios_info = {1}
    /\ Constructed(EmptyStore)
    /\ \E pl \in 1..MaxPeriods, lt \in 0..MaxLifetime :
          \E ir \in [1..pl -> {0, 1}] :
             fn_call = [name |-> "annuity", period_length |-> pl, tech_lifetime |-> lt,
                        interest_rate |-> ir]
    /\ fn_result = [done |-> FALSE, row |-> 0,
                    annuity |-> [r \in 1..fn_call.period_length |->
                                    [c \in 1..fn_call.period_length |-> "zero"]]]

\* one pass of the loop over rows: every column of the row is visited
AnnuityRow ==
    /\ fn_call.name = "annuity"
    /\ ~fn_result.done
    /\ fn_result.row < fn_call.period_length
    /\ fn_result' = [fn_result EXCEPT
                        !.annuity[fn_result.row + 1] =
                            [c \in 1..fn_call.period_length |->
                                AnnuityCell(fn_result.row, c - 1, fn_call.tech_lifetime,
                                            fn_call.interest_rate)],
                        !.row = @ + 1]
    /\ UNCHANGED <<model_vars, fn_call>>

AnnuityReturn ==
    /\ fn_call.name = "annuity"
    /\ ~fn_result.done
    /\ fn_result.row = fn_call.period_length
    /\ fn_result' = [fn_result EXCEPT !.done = TRUE]
    /\ UNCHANGED <<model_vars, fn_call>>

NextAnnuity == AnnuityRow \/ AnnuityReturn

SpecAnnuity == InitAnnuity /\ [][NextAnnuity]_vars

\* ====================================================================
\* util_operators.weibull_distribution with dimensions = 1 and rounding = 2
\* ====================================================================
\* scale factors in tenths and shape factors for which the density is tabulated
WeibullParameters == {15, 30, 50} \X {1, 2}

\* sh/sc * (x/sc)**(sh-1) * exp(-((x/sc)**sh)) at x = 1..12, rounded to two
\* decimals and written in hundredths
RoundedDensity(scale_tenths, shape) ==
    IF scale_tenths = 15 /\ shape = 1 THEN <<34, 18, 9, 5, 2, 1, 1, 0, 0, 0, 0, 0>>
    ELSE IF scale_tenths = 15 /\ shape = 2 THEN <<57, 30, 5, 0, 0, 0, 0, 0, 0, 0, 0, 0>>
    ELSE IF scale_tenths = 30 /\ shape = 1 THEN <<24, 17, 12, 9, 6, 5, 3, 2, 2, 1, 1, 1>>
    ELSE IF scale_tenths = 30 /\ shape = 2 THEN <<20, 28, 25, 15, 7, 2, 1, 0, 0, 0, 0, 0>>
    ELSE IF scale_tenths = 50 /\ shape = 1 THEN <<16, 13, 11, 9, 7, 6, 5, 4, 3, 3, 2, 2>>
    ELSE <<8, 14, 17, 17, 15, 11, 8, 5, 3, 1, 1, 0>>

\* weib_range = int(sc) * 2, replaced by len(rx) when it does not exceed it
WeibRange(scale_tenths, range_length) ==
    LET weib_range == (scale_tenths \div 10) * 2
    IN IF weib_range <= range_length THEN range_length ELSE weib_range

RECURSIVE SumSeq(_)
SumSeq(seq) == IF seq = <<>> THEN 0 ELSE Head(seq) + SumSeq(Tail(seq))

InitWeibull ==
    /\ scenarios_info = {1}
    /\ Constructed(EmptyStore)
    /\ \E parameters \in WeibullParameters, range_length \in 1..MaxRange :
          fn_call = [name |-> "weibull_distribution", scale_factor |-> parameters[1],
                     shape_factor |-> parameters[2], range_length |-> range_length,
                     dimensions |-> 1]
    /\ fn_result = [done |-> FALSE, step |-> "range", weib_range |-> 0,
                    weib_dist |-> <<>>, divisor |-> 1]

WeibullStep(step) ==
    /\ fn_call.name = "weibull_distribution"
    /\ ~fn_result.done
    /\ fn_result.step = step

\* the range over which the density is computed
WeibullRange ==
    /\ WeibullStep("range")
    /\ fn_result' = [fn_result EXCEPT
                        !.weib_range = WeibRange(fn_call.scale_factor, fn_call.range_length),
                        !.step = "density"]
    /\ UNCHANGED <<model_vars, fn_call>>

\* the density at 1..weib_range, rounded
WeibullDensity ==
    /\ WeibullStep("density")
    /\ fn_result' = [fn_result EXCEPT
                        !.weib_dist = SubSeq(RoundedDensity(fn_call.scale_factor,
                                                            fn_call.shape_factor),
                                             1, fn_result.weib_range),
                        !.step = "rescale"]
    /\ UNCHANGED <<model_vars, fn_call>>

\* weib_dist /= np.sum(weib_dist): the entries become fractions of the sum
WeibullRescale ==
    /\ WeibullStep("rescale")
    /\ fn_result' = [fn_result EXCEPT !.divisor = SumSeq(fn_result.weib_dist),
                                      !.step = "truncate"]
    /\ UNCHANGED <<model_vars, fn_call>>

\* weib_dist = weib_dist[:len(rx)], returned as a vector
WeibullTruncate ==
    /\ WeibullStep("truncate")
    /\ fn_result' = [fn_result EXCEPT
                        !.weib_dist = SubSeq(@, 1, fn_call.range_length),
                        !.step = "return",
                        !.done = TRUE]
    /\ UNCHANGED <<model_vars, fn_call>>

NextWeibull == WeibullRange \/ WeibullDensity \/ WeibullRescale \/ WeibullTruncate

SpecWeibull == InitWeibull /\ [][NextWeibull]_vars

\* ====================================================================
\* Claims about the coupled-solve loop, checked under SpecRun
\* ====================================================================
FinalScenarioStates == {"converged", "max_iterations_reached", "infeasible"}

InIntegratedRun == scenario_idx >= 1

\* the rows of the current scenario differ between the store and the snapshot by at most tol
WithinTolerance ==
    /\ files.previous.exists
    /\ \A t \in tables_to_check :
          TablesRelativeDifference(files.db.content, files.previous.content,
                                   tables_to_check)[t] <= numerical_tolerance

\* C1: a scenario never performs more than maximum_iterations solve rounds, the
\* counter never passes maximum_iterations + 1, and a scenario that leaves the loop
\* as max_iterations_reached has performed exactly maximum_iterations rounds.
C1_StopsAtMaximumIterations ==
    /\ \A s \in scenarios_info : rounds[s] <= maximum_iterations
    /\ iter_count <= maximum_iterations + 1
    /\ (pc = "iter_finally" /\ iter_exit = "max_iterations_reached")
          => /\ rounds[scenario_idx] = maximum_iterations
             /\ iter_count = maximum_iterations + 1
    /\ \A s \in scenarios_info :
          scenario_state[s] = "max_iterations_reached" => rounds[s] = maximum_iterations
    /\ (pc = "iter_finally" /\ iter_exit = "continue") => iter_count <= maximum_iterations

C1_Witness ==
    /\ pc = "returned"
    /\ ~raised
    /\ maximum_iterations = MaxIterationsInput
    /\ scenario_state[1] = "max_iterations_reached"
    /\ rounds[1] = MaxIterationsInput
    /\ \A p \in SubProblems : numerical_problems.status[p][1] = "optimal"

C3_InfeasibleWritesNothing ==
    (pc = "iter_finally" /\ iter_exit = "infeasible")
        => /\ files.previous.exists
           /\ files.db.content = files.previous.content
           /\ ~AllOptimal(problems_status[scenario_idx])

C3_Witness ==
    /\ pc = "iter_finally"
    /\ iter_exit = "infeasible"
    /\ iter_count >= 2
    /\ \E t \in tables_to_check :
          /\ cvxpy_var[t][scenario_idx] # Null
          /\ cvxpy_var[t][scenario_idx] # files.db.content[t][scenario_idx]
          /\ files.db.content[t][scenario_idx] # Null

\* C4: a non-optimal sub-problem raises nothing; the scenarios are iterated in table
\* order, each from an iteration counter of zero, and unless an exception ends the run
\* every scenario of the table ends converged, max_iterations_reached or infeasible.
C4_ScenarioStates ==
    /\ iter_exit = "infeasible" => ~raised
    /\ (pc \in {"restore", "returned"} /\ InIntegratedRun /\ ~raised)
          => \A s \in scenarios_info : scenario_state[s] \in FinalScenarioStates
    /\ \A s \in scenarios_info :
          scenario_state[s] # "idle"
              => \A r \in scenarios_info : r < s => scenario_state[r] \in FinalScenarioStates
    /\ InIntegratedRun => scenario_state[scenario_idx] # "idle"
    /\ (pc = "iter_begin" /\ rounds[scenario_idx] = 0) => iter_count = 0

C4_EveryScenarioIterated ==
    /\ []C4_ScenarioStates
    /\ [][pc = "check"
             => /\ raised' = FALSE
                /\ ~AllOptimal(problems_status[scenario_idx])
                      => /\ iter_exit' = "infeasible"
                         /\ pc' = "iter_finally"]_vars
    /\ [][(pc = "iter_finally" /\ iter_exit = "infeasible")
             => /\ scenario_state'[scenario_idx] = "infeasible"
                /\ scenario_idx < Cardinality(scenarios_info)
                      => /\ scenario_idx' = scenario_idx + 1
                         /\ iter_count' = 0
                         /\ pc' = "iter_begin"]_vars

C4_Witness ==
    /\ pc = "returned"
    /\ ~raised
    /\ scenario_state[1] = "infeasible"
    /\ scenario_state[2] = "converged"

\* C5: when the coupled solve completes normally the store holds its content on entry,
\* and neither the backup nor a previous-iteration snapshot remains.
C5_StoreRestored ==
    (pc = "returned" /\ InIntegratedRun /\ ~raised)
        => /\ files.db.exists
           /\ files.db.content = entry_db
           /\ ~files.bkp.exists
           /\ ~files.previous.exists

C5_Witness ==
    /\ pc = "returned"
    /\ ~raised
    /\ scenario_state[1] = "converged"
    /\ entry_db # EmptyStore
    /\ \E t \in tables_to_check : cvxpy_var[t][1] # entry_db[t][1]

\* C6 as stated: when the coupled solve returns, the store still holds the values the
\* last completed iteration of a max_iterations_reached scenario wrote back.
C6_AsStated ==
    (pc = "returned" /\ ~raised)
        => \A s \in scenarios_info :
              (scenario_state[s] = "max_iterations_reached" /\ rounds[s] >= 1)
                  => \A t \in tables_to_check : files.db.content[t][s] = cvxpy_var[t][s]

\* C6 amended: those values stay in the working store while the remaining scenarios
\* are processed, up to the final restore; when the coupled solve returns the store
\* holds its entry content again and the values remain in the decision variables only.
C6_PersistedUntilRestore ==
    \A s \in scenarios_info :
        (scenario_state[s] = "max_iterations_reached" /\ rounds[s] >= 1)
            => \A t \in tables_to_check :
                  /\ cvxpy_var[t][s] \in Values
                  /\ pc \in {"iter_begin", "refetch", "snapshot", "solve", "check",
                             "writeback", "difference", "iter_finally", "restore"}
                        => files.db.content[t][s] = cvxpy_var[t][s]
                  /\ pc = "returned" => files.db.content[t][s] = entry_db[t][s]

C6_Witness ==
    /\ pc = "returned"
    /\ ~raised
    /\ scenario_state[1] = "max_iterations_reached"
    /\ scenario_state[2] \in FinalScenarioStates
    /\ rounds[1] >= 1
    /\ \E t \in tables_to_check : cvxpy_var[t][1] # files.db.content[t][1]

\* C7: an exception raised inside an iteration leaves no snapshot behind, the store is
\* replaced by the backup taken before the loop, and the caller gets the exception:
\* the call ends raised and fetches no status.
C7_ExceptionState ==
    /\ (pc \in {"restore", "returned"} /\ iter_exit = "exception")
          => raised /\ ~files.previous.exists
    /\ (pc = "returned" /\ iter_exit = "exception")
          => /\ files.db.exists
             /\ files.db.content = entry_db
             /\ ~files.bkp.exists

C7_ExceptionPropagates ==
    /\ []C7_ExceptionState
    /\ [][(pc = "returned" /\ iter_exit = "exception")
             => /\ last'.outcome = "raised"
                /\ problem_status' = problem_status
                /\ files' = files]_vars

C7_Witness ==
    /\ pc = "returned"
    /\ raised
    /\ iter_count = 2
    /\ files.db.content = entry_db
    /\ \E t \in tables_to_check : cvxpy_var[t][1] \in Values /\ cvxpy_var[t][1] # entry_db[t][1]


\* ====================================================================
\* Claims about the lifecycle of an instance, checked under Spec
\* ====================================================================
\* everything a solve could touch
solve_frame == <<scenarios_info, symbolic, numerical_problems, problem_status, cvxpy_var,
                 exo_data, files, loop_vars>>

\* a solve request through either entry point, with a supported solver where one is checked
SolveRequestSupported ==
    \/ CoreSolve
    \/ \E force_overwrite, confirm, integrated_problems \in BOOLEAN :
       \E maximum \in 0..MaxIterationsInput, tolerance \in 0..MaxTolerance :
          RunModelWith(TRUE, force_overwrite, confirm, integrated_problems, maximum,
                       tolerance)

\* a solve request that neither forces the overwrite nor is confirmed by the user; the
\* limits it passes are the ones the loop is entered with, when it is entered
SolveRequestWithoutOverwrite ==
    \E integrated_problems \in BOOLEAN :
       \/ CoreSolveWith(FALSE, FALSE, integrated_problems,
                        maximum_iterations', numerical_tolerance')
       \/ RunModelWith(TRUE, FALSE, FALSE, integrated_problems,
                       maximum_iterations', numerical_tolerance')

SolveStarted == pc' \in {"iter_begin", "independent"}

\* the status the guard of solve_numerical_problems reads holds a set entry
SomeStatusSet ==
    /\ problem_status.set
    /\ \E p \in SubProblems, s \in scenarios_info : problem_status.value[p][s] # "unset"

\* C8 as stated: every solve request made while no numerical problems exist ends with
\* OperationalError and changes nothing.
C8_AsStated ==
    [][(pc = "idle" /\ ~numerical_problems.defined /\ (CoreSolve \/ RunModel))
          => /\ last'.outcome = "OperationalError"
             /\ pc' = "idle"
             /\ UNCHANGED solve_frame]_vars

\* C8 amended: a solve request made while no numerical problems exist ends with
\* OperationalError when the requested solver is supported, and through run_model
\* with SettingsError when it is not; either way nothing is solved, no status
\* changes, no backup is taken and the store is not touched.
C8_SolveBeforeGeneration ==
    /\ [](~numerical_problems.defined
            => /\ pc = "idle"
               /\ ~files.bkp.exists
               /\ ~files.previous.exists
               /\ ~problem_status.set)
    /\ [][(pc = "idle" /\ ~numerical_problems.defined /\ SolveRequestSupported)
             => /\ last'.outcome = "OperationalError"
                /\ pc' = "idle"
                /\ UNCHANGED solve_frame]_vars
    /\ [][(pc = "idle" /\ ~numerical_problems.defined /\ RunModel)
             => /\ last'.outcome \in {"OperationalError", "SettingsError"}
                /\ pc' = "idle"
                /\ UNCHANGED solve_frame]_vars

C8_Witness ==
    /\ ~numerical_problems.defined
    /\ last = [op |-> "run_model", outcome |-> "OperationalError"]
    /\ files.db.content # EmptyStore
    /\ symbolic = "loaded"

C10_GenerationNeedsValidation ==
    /\ [](last.outcome = "generated" => symbolic = "validated")
    /\ [](symbolic = "none" => ~numerical_problems.defined)
    /\ [][(~numerical_problems.defined /\ numerical_problems'.defined)
             => symbolic' = "validated"]_vars
    /\ [][(calls' # calls /\ last'.op \in {"core_generate", "initialize_problems"}
             /\ symbolic' # "validated")
             => /\ last'.outcome \in {"OperationalError", "SettingsError",
                                      "MissingDataError"}
                /\ numerical_problems' = numerical_problems]_vars

C10_Witness ==
    /\ last = [op |-> "core_generate", outcome |-> "OperationalError"]
    /\ symbolic = "loaded"
    /\ ~numerical_problems.defined
    /\ ~HasNullExogenous(files.db.content)

\* C11 as stated: initialize_problems(force_overwrite = F, allow_none_values = A) on a
\* coherent symbolic problem is the step that fetches the exogenous data with
\* allow_none_values = A and generates the numerical problems with force_overwrite = F.
C11_AsStated ==
    [][\A F, A, confirm \in BOOLEAN :
          (pc = "idle" /\ InitializeProblemsWith(F, A, TRUE, confirm))
              => GenerateNumericalProblem("initialize_problems", "validated", F, A,
                                          confirm)]_vars

\* C12 as stated: with results available, the endogenous writeback completes for None,
\* for a single index and for a list of indices, and the store then holds the solved
\* values of exactly the selected scenarios.
C12_AsStated ==
    [][\A scenarios_idx \in ScenariosIdx :
          (pc = "idle" /\ problem_status.set /\ LoadResultsToDatabaseWith(scenarios_idx))
              => /\ last'.outcome = "ok"
                 /\ files'.db.content =
                       WriteBack(files.db.content, cvxpy_var,
                                 SelectedScenarios(scenarios_idx))]_vars

\* C13 as stated: an endogenous writeback for all scenarios or for one scenario never
\* raises, and a table whose decision variable holds no solved value for a scenario is
\* skipped: its rows in the store are left as they were.
C13_AsStated ==
    [][\A scenarios_idx \in ScenariosIdx :
          (pc = "idle" /\ scenarios_idx.kind # "list"
             /\ LoadResultsToDatabaseWith(scenarios_idx))
              => /\ last'.outcome \in {"ok", "warned"}
                 /\ \A t \in tables_to_check, s \in scenarios_info :
                       cvxpy_var[t][s] = Null
                           => files'.db.content[t][s] = files.db.content[t][s]]_vars

FetchKeys == {"none"} \cup SubProblems

VariableIndex(v) == CHOOSE i \in 1..Len(FetchVariables) : FetchVariables[i] = v

\* variable i is exogenous under problem key k
ExogenousFor(i, k) ==
    LET type == fn_call.types[i]
    IN IF type.dict THEN k \in SubProblems /\ type.by[k] = "exogenous"
       ELSE k = "none" /\ type.type = "exogenous"

TimesFetched(v, k) == Cardinality({j \in 1..Len(fn_result.log) : fn_result.log[j] = <<v, k>>})

\* the offending rows of variable i, stated on the rows themselves
OffendingRows(i) ==
    {r \in 1..MaxRows : \/ fn_call.rows[i][r] = "text"
                        \/ (fn_call.rows[i][r] = "null" /\ ~fn_call.allow_none_values)}

FetchCompleted == fn_result.done /\ ~fn_result.error.raised

\* C15: a fetch with default arguments that completes has read and assigned each
\* variable exactly once per problem key under which it is exogenous (once for a
\* plainly exogenous variable), and at no time is a constant or endogenous
\* variable, or a sub-problem in which the variable is endogenous, read or assigned.
C15_FetchesExactlyExogenous ==
    fn_call.name = "data_to_cvxpy_exogenous_vars" =>
        /\ \A i \in 1..Len(FetchVariables), k \in FetchKeys :
              /\ ~ExogenousFor(i, k) =>
                    /\ TimesFetched(FetchVariables[i], k) = 0
                    /\ <<FetchVariables[i], k>> \notin fn_result.assigned
              /\ (FetchCompleted /\ ExogenousFor(i, k)) =>
                    /\ TimesFetched(FetchVariables[i], k) = 1
                    /\ <<FetchVariables[i], k>> \in fn_result.assigned
        /\ \A j \in 1..Len(fn_result.log) : fn_result.log[j][2] \in FetchKeys

C15_Witness ==
    /\ fn_call.name = "data_to_cvxpy_exogenous_vars"
    /\ FetchCompleted
    /\ fn_call.types[1].dict
    /\ fn_call.types[1].by["p1"] = "endogenous" /\ fn_call.types[1].by["p2"] = "exogenous"
    /\ ~fn_call.types[2].dict /\ fn_call.types[2].type = "constant"
    /\ fn_result.log = <<(<<"v1", "p2">>)>>
    /\ fn_result.assigned = {<<"v1", "p2">>}

RECURSIVE ProductOfSizes(_)
ProductOfSizes(data_dict) ==
    IF data_dict = <<>> THEN 1 ELSE Len(Head(data_dict)) * ProductOfSizes(Tail(data_dict))

PositionIn(list, item) == CHOOSE j \in 1..Len(list) : list[j] = item

\* row r comes before row q when, at the first axis where they differ, r holds the earlier item
ComesBefore(r, q, data_dict) ==
    \E i \in 1..Len(data_dict) :
        /\ \A m \in 1..(i - 1) : r[m] = q[m]
        /\ PositionIn(data_dict[i], r[i]) < PositionIn(data_dict[i], q[i])

ProductReturned == fn_call.name \in ProductFunctions /\ fn_result.done

HasEmptyAxis(data_dict) == \E i \in 1..Len(data_dict) : data_dict[i] = <<>>

\* C18: for n >= 1 axes of sizes c1..cn the returned product has c1*...*cn
\* rows, each row holds one item of every axis, no row occurs twice, and the
\* rows are in lexicographic order of item positions with the first axis most
\* significant, that is, the last axis varies fastest.
C18_ProductRows ==
    (ProductReturned /\ Len(fn_call.data_dict) >= 1) =>
        LET data_dict == fn_call.data_dict
            rows == fn_result.rows
        IN /\ ~fn_result.raised
           /\ Len(rows) = ProductOfSizes(data_dict)
           /\ \A j \in 1..Len(rows) :
                 /\ Len(rows[j]) = Len(data_dict)
                 /\ \A i \in 1..Len(data_dict) :
                       \E m \in 1..Len(data_dict[i]) : rows[j][i] = data_dict[i][m]
           /\ Cardinality({rows[j] : j \in 1..Len(rows)}) = Len(rows)
           /\ \A j \in 1..(Len(rows) - 1) : ComesBefore(rows[j], rows[j + 1], data_dict)

C18_Witness ==
    /\ ProductReturned
    /\ fn_call.name = "unpivot_dict_to_dataframe"
    /\ fn_call.data_dict = <<(<<"y", "x">>), (<<"z">>), (<<"x", "z", "y">>)>>
    /\ fn_result.rows = << <<"y", "z", "x">>, <<"y", "z", "z">>, <<"y", "z", "y">>,
                           <<"x", "z", "x">>, <<"x", "z", "z">>, <<"x", "z", "y">> >>

\* C19 as stated: a product over no axes, or over axes of which one has no
\* items, ends in an error.
C19_AsStated ==
    (ProductReturned /\ (fn_call.data_dict = <<>> \/ HasEmptyAxis(fn_call.data_dict)))
        => fn_result.raised


\* ====================================================================
\* Claims about the decision variables of a data table, checked under SpecCoordinates
\* ====================================================================
\* the coordinate combinations of the table, or of one scenario group of it
TableCombinations(g) ==
    {<<a, b>> : a \in (IF fn_call.split THEN {g} ELSE ItemsOf(TableCoordinates[1])),
                b \in ItemsOf(TableCoordinates[2])}

\* the coordinate combinations of member variable v
VariableCombinations(v) ==
    {<<a, b>> : a \in ItemsOf(fn_call.variables[v][1]), b \in ItemsOf(fn_call.variables[v][2])}

MemberCombinations == UNION {VariableCombinations(v) : v \in 1..Len(fn_call.variables)}

VariablesCreated == fn_call.name = "initialize_problems_variables" /\ fn_result.done

\* C17: once the decision variables of an endogenous table are created, the
\* table has one variable if it is not split and one per scenario group if it
\* is, and each has shape (n, 1) with n the number of distinct coordinate
\* combinations of the table (of the group) that occur among the combinations
\* of its member variables.
C17_ShapeMatchesCoordinates ==
    VariablesCreated =>
        /\ DOMAIN fn_result.shape = CoordinateGroups(fn_call.split)
        /\ \A g \in DOMAIN fn_result.shape :
              fn_result.shape[g] =
                  <<Cardinality(TableCombinations(g) \cap MemberCombinations), 1>>

\* a split table whose two member variables overlap and name an item the table lacks
C17_Witness ==
    /\ VariablesCreated
    /\ fn_call.split
    /\ fn_call.variables = << <<(<<"x", "z">>), (<<"x", "y">>)>>,
                              <<(<<"x", "y">>), (<<"y">>)>> >>
    /\ fn_result.shape = [g \in {"x", "y"} |-> IF g = "x" THEN <<2, 1>> ELSE <<1, 1>>]


\* ====================================================================
\* Claims about token extraction, checked under SpecTokens
\* ====================================================================
\* the whole identifier tokens of the expression: runs of identifier characters
\* that begin with a letter and have no word character on either side
IdentifierSpans ==
    LET expression == fn_call.expression
    IN {sp \in (1..Len(expression)) \X (1..Len(expression)) :
           /\ sp[1] <= sp[2]
           /\ expression[sp[1]] \in FirstChars
           /\ \A i \in sp[1]..sp[2] : expression[i] \in OtherChars
           /\ ~IsWordAt(expression, sp[1] - 1)
           /\ ~IsWordAt(expression, sp[2] + 1)}

TokenOf(sp) == SubSeq(fn_call.expression, sp[1], sp[2])

\* the spans whose token equals no entry of the skip list
RetainedSpans ==
    {sp \in IdentifierSpans :
        \A k \in 1..Len(fn_call.tokens_to_skip) : fn_call.tokens_to_skip[k] # TokenOf(sp)}

TokensReturned == fn_call.name = "extract_tokens_from_expression" /\ fn_result.done

\* C20: the returned list holds, in order of occurrence, exactly the whole
\* identifier tokens of the expression that equal no entry of the skip list; a
\* token that only begins or ends with a skip entry is kept.
C20_WholeTokensNotSkipped ==
    TokensReturned =>
        /\ Len(fn_result.allowed_tokens) = Cardinality(RetainedSpans)
        /\ \A sp \in RetainedSpans :
              fn_result.allowed_tokens[1 + Cardinality({q \in RetainedSpans : q[1] < sp[1]})]
                  = TokenOf(sp)

\* "bb+cbb" with 'bb' skipped returns 'cbb'
C20_Witness ==
    /\ TokensReturned
    /\ fn_call.expression = <<"b", "b", "+", "c", "b", "b">>
    /\ fn_call.tokens_to_skip = <<(<<"b", "b">>)>>
    /\ fn_result.tokens = <<(<<"b", "b">>), (<<"c", "b", "b">>)>>
    /\ fn_result.allowed_tokens = <<(<<"c", "b", "b">>)>>


\* ====================================================================
\* Claims about find_non_allowed_types, checked under SpecNonAllowed
\* ====================================================================
NonAllowedReturned == fn_call.name = "find_non_allowed_types" /\ fn_result.done

ReturnedIds == {fn_result.ids[j] : j \in 1..Len(fn_result.ids)}

\* C21: the returned ids hold the id of a null row exactly when allow_none is
\* False, the id of every non-null non-numeric row whatever allow_none is, and
\* never the id of a row with an allowed numeric value; each id is returned once.
C21_NonAllowedIds ==
    NonAllowedReturned =>
        /\ \A i \in 1..Len(fn_call.rows) :
              /\ fn_call.rows[i] = "null" => ((i \in ReturnedIds) = ~fn_call.allow_none)
              /\ fn_call.rows[i] = "text" => i \in ReturnedIds
              /\ fn_call.rows[i] = "num" => i \notin ReturnedIds
        /\ ReturnedIds \subseteq 1..Len(fn_call.rows)
        /\ Cardinality(ReturnedIds) = Len(fn_result.ids)

\* nulls are allowed: the null row is omitted and the text row is still returned
C21_Witness ==
    /\ NonAllowedReturned
    /\ fn_call.allow_none
    /\ fn_call.rows[1] = "null" /\ fn_call.rows[2] = "text" /\ fn_call.rows[3] = "num"
    /\ \A i \in 4..MaxRows : fn_call.rows[i] = "null"
    /\ fn_result.ids = <<2>>


\* ====================================================================
\* Claims about shift, checked under SpecShift
\* ====================================================================
ShiftReturned == fn_call.name = "shift" /\ fn_result.done

\* entry (i, j) of the returned matrix, rows and columns counted from 0
ShiftEntry(i, j) == fn_result.matrix[i * fn_call.set_length + j + 1]

\* C22: for a scalar offset k, shift returns the N x N matrix of zeros and ones
\* with a one at (i, j) exactly when i - j = k; for k = 0 this is the identity
\* and for |k| >= N it is all zero.
C22_ScalarShift ==
    (ShiftReturned /\ Len(fn_call.shift_value) = 1) =>
        LET N == fn_call.set_length
            k == fn_call.shift_value[1]
        IN /\ ~fn_result.raised
           /\ Len(fn_result.matrix) = N * N
           /\ \A i, j \in 0..(N - 1) : ShiftEntry(i, j) = (IF i - j = k THEN 1 ELSE 0)
           /\ (k >= N \/ 0 - k >= N) => \A p \in 1..(N * N) : fn_result.matrix[p] = 0

\* the diagonal moved one row down in a 4 x 4 matrix
C22_Witness ==
    /\ ShiftReturned
    /\ fn_call.set_length = 4
    /\ fn_call.shift_value = <<1>>
    /\ fn_result.matrix = <<0, 0, 0, 0,  1, 0, 0, 0,  0, 1, 0, 0,  0, 0, 1, 0>>

\* C23 as stated: for a 1 x N vector s of offsets, shift returns the N x N
\* matrix whose column j has a one at row j + s[j] when that row exists and
\* zeros elsewhere.
C23_AsStated ==
    (ShiftReturned /\ Len(fn_call.shift_value) = fn_call.set_length) =>
        LET N == fn_call.set_length
        IN /\ ~fn_result.raised
           /\ Len(fn_result.matrix) = N * N
           /\ \A i, j \in 0..(N - 1) :
                 ShiftEntry(i, j) = (IF i = j + fn_call.shift_value[j + 1] THEN 1 ELSE 0)


\* ====================================================================
\* Claims about annuity, checked under SpecAnnuity
\* ====================================================================
AnnuityReturned == fn_call.name = "annuity" /\ fn_result.done

\* C24 as stated: the returned matrix is strictly lower triangular and banded:
\* a cell (row, col) is non-zero only if col < row and row - col does not
\* exceed the lifetime, and every cell on or above the main diagonal is zero.
C24_AsStated ==
    AnnuityReturned =>
        \A row, col \in 0..(fn_call.period_length - 1) :
            /\ fn_result.annuity[row + 1][col + 1] # "zero"
                  => (col < row /\ row - col <= fn_call.tech_lifetime)
            /\ col >= row => fn_result.annuity[row + 1][col + 1] = "zero"


\* ====================================================================
\* Claims about weibull_distribution, checked under SpecWeibull
\* ====================================================================
WeibullReturned == fn_call.name = "weibull_distribution" /\ fn_result.done

\* C25 as stated: the returned vector has the length of the range and its
\* entries, each weib_dist[i] / divisor, sum to 1, also when the range is
\* shorter than twice the scale factor.
C25_AsStated ==
    WeibullReturned =>
        /\ Len(fn_result.weib_dist) = fn_call.range_length
        /\ fn_result.divisor # 0
        /\ SumSeq(fn_result.weib_dist) = fn_result.divisor


\* ====================================================================
\* Claims about connections and store files in the coupled-solve loop, checked under Spec
\* ====================================================================
\* the steps of the loop that copy, erase or rename a store file
StoreFileStep ==
    \/ Snapshot
    \/ IterFinally
    \/ Restore
    \/ (pc = "idle" /\ pc' = "iter_begin")

\* the steps of the loop that read or write the store
StoreAccessStep == Refetch \/ Writeback \/ Difference

\* C26: a connection is open only while the re-fetch, the writeback or the
\* difference is inside its with block; each of these accesses starts with
\* the connection open and leaves it closed, also when it ends with an
\* exception; every public call returns with the connection closed; and every
\* step that copies, erases or renames a store file starts and ends with the
\* connection closed.
C26_ScopedConnections ==
    /\ [](connection = "open" => pc \in {"refetch", "writeback", "difference"})
    /\ [][StoreAccessStep => (connection = "open" /\ connection' = "closed")]_vars
    /\ [][StoreFileStep => (connection = "closed" /\ connection' = "closed")]_vars

\* the difference is about to be read through an open connection while the
\* backup and the snapshot exist
C26_Witness ==
    /\ connection = "open"
    /\ pc = "difference"
    /\ files.bkp.exists
    /\ files.previous.exists


\* ====================================================================
\* Further claims about the coupled-solve loop, checked under SpecRun
\* ====================================================================
\* positions between the creation of the snapshot and the cleanup of the same iteration
InsideIteration == pc \in {"solve", "check", "writeback", "difference", "iter_finally"}

ExogenousBoundTo(exo, db) ==
    \A p \in SubProblems : \A t \in ExogenousTablesOf(p) :
        exo[p][t][scenario_idx] = db[t][scenario_idx]

\* C28: the re-fetch runs only in iterations after the first, before the
\* snapshot of the iteration is taken and before any of its sub-problems is
\* solved; when it completes, the placeholders of the scenario hold the values
\* the previous iteration wrote back; every later iteration takes its snapshot
\* with the placeholders bound to the store, and inside the loop nothing but
\* the re-fetch changes the placeholders.
C28_RefetchBeforeSnapshot ==
    /\ [](pc = "refetch" =>
             /\ iter_count >= 2
             /\ ~files.previous.exists
             /\ rounds[scenario_idx] = iter_count - 1)
    /\ [][(Refetch /\ ~raised') =>
             /\ pc' = "snapshot"
             /\ ExogenousBoundTo(exo_data', files.db.content)
             /\ \A t \in tables_to_check :
                   files.db.content[t][scenario_idx] = cvxpy_var[t][scenario_idx]]_vars
    /\ [][(pc = "snapshot" /\ pc' = "solve" /\ iter_count >= 2)
             => ExogenousBoundTo(exo_data, files.db.content)]_vars
    /\ [][(exo_data' # exo_data /\ pc # "idle") => Refetch]_vars

\* the second iteration takes its snapshot with a placeholder bound to a
\* value that the first iteration wrote and the store did not hold on entry
C28_Witness ==
    /\ pc = "snapshot"
    /\ iter_count = 2
    /\ \E p \in SubProblems : \E t \in ExogenousTablesOf(p) :
          /\ exo_data[p][t][scenario_idx] = files.db.content[t][scenario_idx]
          /\ exo_data[p][t][scenario_idx] = cvxpy_var[t][scenario_idx]
          /\ exo_data[p][t][scenario_idx] # entry_db[t][scenario_idx]


\* a sub-problem of the running iteration has just been solved
SubProblemSolved == pc = "solve" /\ sub_idx' = sub_idx + 1

\* C29: inside an iteration the sub-problems are taken one at a time in the
\* order of sub_problems_keys, starting from the first after the snapshot; a
\* solve touches the status of its own sub-problem only and records it in
\* problems_status whatever the status is, and the next sub-problem follows
\* also after a non-optimal one; the status test and the writeback are
\* reached only when the last sub-problem has been solved.
C29_SubProblemsInOrder ==
    /\ [](pc = "solve" => sub_idx \in 1..Len(sub_problems_keys))
    /\ [](pc \in {"check", "writeback"} => sub_idx = Len(sub_problems_keys) + 1)
    /\ [][(pc = "snapshot" /\ pc' = "solve") => sub_idx' = 1]_vars
    /\ [][(pc = "solve" /\ sub_idx' # sub_idx) => sub_idx' = sub_idx + 1]_vars
    /\ [][SubProblemSolved =>
             LET p == sub_problems_keys[sub_idx] IN
             /\ problems_status'[scenario_idx][p] \in SolveStatuses
             /\ problems_status'[scenario_idx][p]
                    = numerical_problems'.status[p][scenario_idx]
             /\ \A q \in SubProblems \ {p} :
                   /\ problems_status'[scenario_idx][q] = problems_status[scenario_idx][q]
                   /\ numerical_problems'.status[q] = numerical_problems.status[q]
             /\ pc' = (IF sub_idx < Len(sub_problems_keys) THEN "solve" ELSE "check")]_vars
    /\ [][(pc' = "writeback" /\ pc # "writeback") =>
             (pc = "check" /\ AllOptimal(problems_status[scenario_idx]))]_vars

\* the status test is reached after the first sub-problem came out
\* non-optimal and the last one was solved all the same
C29_Witness ==
    /\ pc = "check"
    /\ Len(sub_problems_keys) >= 2
    /\ sub_idx = Len(sub_problems_keys) + 1
    /\ problems_status[scenario_idx][sub_problems_keys[1]] = "infeasible"
    /\ problems_status[scenario_idx][sub_problems_keys[Len(sub_problems_keys)]] = "optimal"


\* the positions of one pass of the while loop
IterationSteps ==
    {"iter_begin", "refetch", "snapshot", "solve", "check", "writeback",
     "difference", "iter_finally"}

\* the store holds, for the running scenario, what the decision variables hold
HoldsWriteback(db) == db = WriteBack(db, cvxpy_var, {scenario_idx})

\* C30: the snapshot is a copy of the store as it stands, which in an
\* iteration after the first is the store as the previous writeback left it;
\* from the snapshot to the writeback of the same iteration the two are equal;
\* inside the loop the store changes in the writeback only, and the snapshot
\* changes only when it is taken and when it is erased; so when the
\* difference is computed the store is the snapshot with the writeback of
\* this iteration applied.
C30_DifferenceOfConsecutiveIterations ==
    /\ [][(pc = "snapshot" /\ pc' = "solve") =>
             /\ files'.previous = files.db
             /\ files'.db = files.db
             /\ (iter_count >= 2 => HoldsWriteback(files.db.content))]_vars
    /\ [](pc \in {"solve", "check", "writeback"} =>
             (files.previous.exists /\ files.previous.content = files.db.content))
    /\ [][(pc \in IterationSteps /\ files'.db # files.db) =>
             /\ Writeback
             /\ files'.db.content = WriteBack(files.db.content, cvxpy_var, {scenario_idx})]_vars
    /\ [][(pc \in IterationSteps /\ files'.previous # files.previous) =>
             (pc = "snapshot" \/ IterFinally)]_vars
    /\ [](pc = "difference" =>
             /\ iter_count >= 2
             /\ files.previous.exists
             /\ files.db.content
                   = WriteBack(files.previous.content, cvxpy_var, {scenario_idx}))

\* the difference of a second iteration has been computed between a snapshot
\* that holds the first writeback, not the original store, and a store that
\* the second writeback has changed
C30_Witness ==
    /\ pc = "iter_finally"
    /\ iter_count = 2
    /\ iter_exit \in {"continue", "converged"}
    /\ files.previous.exists
    /\ files.previous.content # files.db.content
    /\ files.previous.content # files.bkp.content
    /\ HoldsWriteback(files.db.content)

====
